---- MODULE Spec2Model ----
\* Playback engine of the three-panel simulation (SimulationEngine, the
\* word-granularity revision with the error-card micro-pause), together with
\* the host primitives it drives: performance.now(), requestAnimationFrame
\* and setTimeout.  Times are in milliseconds.
EXTENDS Integers, Sequences, FiniteSets, TLC

VARIABLES
  scenario,          \* this.scenario: [totalDurationMs, events]
  now,               \* performance.now() when the host enters a handler
  callbackMs,        \* wall-clock ms the renderer spends in one callback
  snapshot,          \* caller: the object the latest getState() returned, Null
                     \* if none: whether it is this.state itself, and its fields
  state,             \* this.state: PlaybackState
  startTimeMs,       \* this.startTimeMs: Null or <<ms>>
  pausedAtMs,        \* this.pausedAtMs
  rafId,             \* this.rafId: Null or <<handle>>
  scheduled,         \* this.scheduled: sequence of ScheduledEvent
  activeTypings,     \* this.activeTypings: key -> ActiveTyping
  microPauseStartMs, \* this.microPauseStartMs: Null or <<ms>>
  frames,            \* host: handles of the pending animation-frame requests
  timers,            \* host: pending timeouts [id, key, total, remaining]: the
                     \* closure `tick` holds key and totalChars
  calls,             \* callbacks invoked by the last handler, in order
  firedNow,          \* schedule positions fired by the last handler, in order
  lastOp,            \* the handler that ran last
  fireLog,           \* schedule positions fired since construction / reset
  completeCount,     \* onComplete invocations since construction / reset
  lastProgress,      \* elapsed of the latest onProgress since construction / reset
  resetAfterFiring,  \* reset() has been called after some event had fired
  resetFrom,         \* after reset(): what reset() found; Null after other handlers
  pauseClock,        \* clock reading (now - origin) at the latest effective pause()
  pauseNow,          \* performance.now() at the latest effective pause()
  resumeNow,         \* performance.now() at the latest resume from paused
  cleanResume,       \* resumed from a pause taken with no micro-pause, none since
  pausedInFreeze,    \* an effective pause() happened during the current micro-pause
  typingLog,         \* per chat message since construction / reset: the cursors
                     \* revealed, the completions, the reveals at the latest pause()
  errorFiredAt,      \* performance.now() of an error card fired less than the
                     \* micro-pause duration ago, Null if none
  freezeSpan,        \* when the last handler ended a micro-pause: its wall-clock
                     \* span and whether pause() was called in it; else Null
  hostLag            \* dispatch instants passed since _tick last ran, where the
                     \* host's frame latency is tracked; else Null

engineVars == <<state, startTimeMs, pausedAtMs, rafId, scheduled, activeTypings,
                microPauseStartMs, frames, timers>>
histVars == <<calls, firedNow, lastOp, fireLog, completeCount, lastProgress,
              resetAfterFiring, resetFrom, pauseClock, pauseNow, resumeNow,
              cleanResume, pausedInFreeze, typingLog, errorFiredAt, freezeSpan,
              hostLag>>
vars == <<scenario, now, callbackMs, snapshot, engineVars, histVars>>

----------------------------------------------------------------------------
\* Bounds of the model

\* the wall clock advances in steps of this many ms
Quantum == 400
\* the wall clock stops advancing here
MaxNow == 3200
\* onComplete invocations are counted up to this number
MaxCount == 2
\* ms per callback of a renderer whose callbacks take measurable time
CallbackCost == 1
\* a host that runs frame callbacks promptly lets at most this many dispatch
\* instants pass between two runs of _tick
MaxLag == 1
\* message texts are tried up to this length
MaxTextLen == 3

----------------------------------------------------------------------------
\* Program constants

WORD_SPEED_MS == 80
WORD_JITTER_MS == 20
microPauseDurationMs == 800

Null == <<>>
Some(v) == <<v>>
\* JavaScript's undefined, for an array read outside its bounds
Undefined == -1

\* Math.floor(Math.random() * WORD_JITTER_MS * 2) - WORD_JITTER_MS ranges over
\* -WORD_JITTER_MS .. WORD_JITTER_MS - 1; the extremes stand for the range
Jitters == {0 - WORD_JITTER_MS, WORD_JITTER_MS - 1}

----------------------------------------------------------------------------
\* Scenario data (types.ts): small timelines in the shape of the authored one

Phase(p, d) == [type |-> "phase-transition", event |-> [phase |-> p, delayMs |-> d]]
Chat(p, txt, d) ==
  [type |-> "chat", event |-> [panel |-> p, text |-> txt, delayMs |-> d]]
Card(id, err, d) ==
  [type |-> "protocol-card", event |-> [id |-> id, isError |-> err, delayMs |-> d]]
Signal(j, d) == [type |-> "signal-flow", event |-> [json |-> j, delayMs |-> d]]
\* a ProtocolCard with subCards, each a ProtocolSubCard with its own delayMs
CardWithSubs(id, err, d, subDelays) ==
  [type |-> "protocol-card",
   event |-> [id |-> id, isError |-> err, delayMs |-> d,
              subCards |-> [i \in DOMAIN subDelays |-> [delayMs |-> subDelays[i]]]]]

\* texts are sequences of characters; text[i] of the source is txt[i + 1]
TxtABC == <<"a", " ", "b", " ", "c">>
TxtHiYo == <<"h", "i", " ", "y", "o">>
TxtOk == <<"o", "k">>

Scenarios ==
  << \* an error card, a tie at 500, events listed out of time order
     [totalDurationMs |-> 1500,
      events |-> << Card("c-err", TRUE, 900),
                    Phase("protocol", 500),
                    Chat("left", TxtABC, 0),
                    Signal("{j}", 500),
                    Phase("post-session", 1300) >>],
     \* two error cards due together, two messages on one panel, an event
     \* due exactly at the end and one due after it
     [totalDurationMs |-> 1200,
      events |-> << Card("e1", TRUE, 500),
                    Card("e2", TRUE, 500),
                    Chat("left", TxtHiYo, 500),
                    Chat("left", TxtABC, 0),
                    Chat("right", TxtOk, 0),
                    Phase("protocol", 1200),
                    Signal("{late}", 1700) >>] >>

\* a message due at once, one due with a phase transition, a card
CharScenario ==
  [totalDurationMs |-> 1500,
   events |-> <<Chat("left", TxtHiYo, 0), Phase("protocol", 500),
                Chat("right", TxtOk, 500), Card("c1", FALSE, 900)>>]

\* one phase transition, no message
SnapScenario ==
  [totalDurationMs |-> 900, events |-> <<Phase("protocol", 500)>>]

\* a message with a negative due offset
BadScenario ==
  [totalDurationMs |-> 900,
   events |-> <<Phase("protocol", 500), Chat("left", TxtHiYo, 0 - 100)>>]

\* every text of 1 to MaxTextLen characters over a letter and the space
Texts == UNION {[1..n -> {"a", " "}] : n \in 1..MaxTextLen}

\* the texts of 1 to MaxTextLen letters
LetterTexts == UNION {[1..n -> {"a"}] : n \in 1..MaxTextLen}

\* one message, of text txt
TextScenario(txt) ==
  [totalDurationMs |-> 2400, events |-> <<Chat("left", txt, 1600)>>]

\* two multi-word messages on one panel with the same due offset, a card
\* that carries sub-cards, a signal and a phase transition
SharedKeyScenario ==
  [totalDurationMs |-> 2800,
   events |-> <<Chat("left", TxtHiYo, 2000), Chat("left", TxtABC, 2000),
                CardWithSubs("c-sub", FALSE, 400, <<100, 200>>),
                Signal("{j}", 400), Phase("protocol", 800)>>]

\* two error cards due in the same tick, and a two-word message
SlowScenario ==
  [totalDurationMs |-> 1500,
   events |-> <<Card("e1", TRUE, 500), Card("e2", TRUE, 500),
                Chat("left", TxtHiYo, 0)>>]

----------------------------------------------------------------------------
\* Helpers

Min(a, b) == IF a <= b THEN a ELSE b

\* seq[i] with a 0-based index, undefined outside the array
At0(seq, i) == IF i + 1 \in DOMAIN seq THEN seq[i + 1] ELSE Undefined

\* a >= b of the source, false when a is undefined
Ge(a, b) == a # Undefined /\ a >= b

\* a handle the host has not given out among `used`
NewHandle(used) == CHOOSE h \in 1..(Cardinality(used) + 1) :
                     h \notin used /\ \A g \in 1..(h - 1) : g \in used

\* a sort that is not stable: an equal offset goes before the entries already placed
RECURSIVE InsertSorted_Unstable(_, _)
InsertSorted_Unstable(sorted, x) ==
  IF sorted = <<>> THEN <<x>>
  ELSE IF sorted[Len(sorted)].fireAtMs - x.fireAtMs < 0
       THEN Append(sorted, x)
       ELSE Append(InsertSorted_Unstable(SubSeq(sorted, 1, Len(sorted) - 1), x),
                   sorted[Len(sorted)])

\* Array.prototype.sort with (a, b) => a.fireAtMs - b.fireAtMs: stable
RECURSIVE InsertSorted(_, _)
InsertSorted(sorted, x) ==
  IF sorted = <<>> THEN <<x>>
  ELSE IF sorted[Len(sorted)].fireAtMs - x.fireAtMs <= 0
       THEN Append(sorted, x)
       ELSE Append(InsertSorted(SubSeq(sorted, 1, Len(sorted) - 1), x),
                   sorted[Len(sorted)])

RECURSIVE SortByFireAt(_)
SortByFireAt(seq) ==
  IF seq = <<>> THEN <<>>
  ELSE InsertSorted(SortByFireAt(SubSeq(seq, 1, Len(seq) - 1)), seq[Len(seq)])

\* _buildSchedule without the sort
BuildSchedule_NoSort(sc) ==
  [i \in DOMAIN sc.events |->
     [fireAtMs |-> sc.events[i].event.delayMs,
      event |-> sc.events[i],
      fired |-> FALSE]]

\* _buildSchedule
BuildSchedule(sc) ==
  SortByFireAt([i \in DOMAIN sc.events |->
                 [fireAtMs |-> sc.events[i].event.delayMs,
                  event |-> sc.events[i],
                  fired |-> FALSE]])

\* whether new SimulationEngine(sc, callbacks) throws: the constructor and
\* _buildSchedule have no throw statement and test no offset
ConstructorThrows(sc) == FALSE

\* the state literal of the constructor and of reset()
InitialState(sc) ==
  [phase |-> "idle", currentPhase |-> "pre-session", elapsedMs |-> 0,
   totalDurationMs |-> sc.totalDurationMs]

----------------------------------------------------------------------------
\* The engine as a record, so that handlers compose (play() runs
\* _resumeTypings() and _tick()); calls and firedNow collect what the handler
\* invoked

Cur ==
  [state |-> state, startTimeMs |-> startTimeMs, pausedAtMs |-> pausedAtMs,
   rafId |-> rafId, scheduled |-> scheduled, activeTypings |-> activeTypings,
   microPauseStartMs |-> microPauseStartMs, frames |-> frames,
   timers |-> timers, calls |-> <<>>, firedNow |-> <<>>]

Callback(e, c) == [e EXCEPT !.calls = Append(@, c)]

\* _elapsed
Elapsed(e, t) == IF e.startTimeMs = Null THEN 0 ELSE t - e.startTimeMs[1]

\* getState returning this.state itself
GetStateOp_Alias(e) == [live |-> TRUE, val |-> e.state]

\* getState: { ...this.state }, a new object with the fields of this.state
GetStateOp(e) == [live |-> FALSE, val |-> e.state]

\* this.rafId = requestAnimationFrame(() => this._tick())
RequestFrame(e) ==
  LET h == NewHandle(e.frames \cup {e.rafId[i] : i \in DOMAIN e.rafId})
  IN [e EXCEPT !.frames = @ \cup {h}, !.rafId = Some(h)]

\* if (this.rafId !== null) { cancelAnimationFrame(this.rafId); this.rafId = null; }
CancelFrame(e) ==
  IF e.rafId # Null
  THEN [e EXCEPT !.frames = @ \ {e.rafId[1]}, !.rafId = Null]
  ELSE e

\* a session key made of the panel name alone
KeyOf_PanelOnly(msg) == <<msg.panel>>

\* `${msg.panel}-${msg.delayMs}`: the panel name and the decimal offset
KeyOf(msg) == <<msg.panel, msg.delayMs>>

\* a set that keeps the value already stored under the key
SetKey_KeepExisting(m, k, v) ==
  [x \in DOMAIN m \cup {k} |-> IF x = k /\ k \notin DOMAIN m THEN v ELSE m[x]]

\* Map.set
SetKey(m, k, v) == [x \in DOMAIN m \cup {k} |-> IF x = k THEN v ELSE m[x]]

\* new Map()
EmptyMap == <<>>

\* Map.delete
DeleteKey(m, k) ==
  IF DOMAIN m \ {k} = {} THEN EmptyMap ELSE [x \in DOMAIN m \ {k} |-> m[x]]

\* _computeWordEnds, from index i on
RECURSIVE WordEndsFrom(_, _)
WordEndsFrom(text, i) ==
  IF i >= Len(text) THEN <<>>
  ELSE (IF text[i + 1] = " " \/ i = Len(text) - 1 THEN <<i>> ELSE <<>>)
         \o WordEndsFrom(text, i + 1)

\* _computeWordEnds pushing the indices of the spaces only
ComputeWordEnds_SpacesOnly(text) ==
  SelectSeq([i \in 1..Len(text) |-> i - 1], LAMBDA i : text[i + 1] = " ")

ComputeWordEnds(text) == WordEndsFrom(text, 0)

\* timer handles in use: pending timeouts and handles still stored in sessions
TimerHandles(e) ==
  {tm.id : tm \in e.timers}
    \cup {e.activeTypings[k].intervalId[1] :
            k \in {x \in DOMAIN e.activeTypings : e.activeTypings[x].intervalId # Null}}

\* setTimeout(tick, delay) where the closure `tick` holds key and totalChars,
\* the handle kept in the intervalId of the session stored under key
ArmTypingTimer(e, key, totalChars, delay) ==
  LET h == NewHandle(TimerHandles(e))
  IN [e EXCEPT !.timers = @ \cup {[id |-> h, key |-> key, total |-> totalChars,
                                   remaining |-> delay]},
               !.activeTypings[key].intervalId = Some(h)]

\* _scheduleTypingTick(key, typing) for the session stored under key: the
\* first step of a (re)armed session has no jitter
ScheduleTypingTick(e, key, t) ==
  ArmTypingTimer(e, key, Len(e.activeTypings[key].text), WORD_SPEED_MS)

\* the closure without `typing.wordIndex++`
TypingTick_NoAdvance(e, key, totalChars, jitter) ==
  IF e.state.phase # "playing" THEN e
  ELSE IF key \notin DOMAIN e.activeTypings THEN e
  ELSE
    LET ty == e.activeTypings[key]
        ci == At0(ty.wordEnds, ty.wordIndex)
        e1 == [e EXCEPT !.activeTypings[key].charIndex = ci]
        e2 == Callback(e1, <<"onChatMessage", ty.msg, ci, totalChars>>)
    IN IF Ge(ci, totalChars - 1)
       THEN Callback([e2 EXCEPT !.activeTypings = DeleteKey(@, key)],
                     <<"onChatMessageComplete", ty.msg>>)
       ELSE ArmTypingTimer(e2, key, totalChars, WORD_SPEED_MS + jitter)

\* the closure returning at once while a micro-pause is recorded
TypingTick_SuspendedInFreeze(e, key, totalChars, jitter) ==
  IF e.state.phase # "playing" \/ e.microPauseStartMs # Null THEN e
  ELSE IF key \notin DOMAIN e.activeTypings THEN e
  ELSE
    LET ty == e.activeTypings[key]
        ci == At0(ty.wordEnds, ty.wordIndex)
        e1 == [e EXCEPT !.activeTypings[key].charIndex = ci,
                        !.activeTypings[key].wordIndex = @ + 1]
        e2 == Callback(e1, <<"onChatMessage", ty.msg, ci, totalChars>>)
    IN IF Ge(ci, totalChars - 1)
       THEN Callback([e2 EXCEPT !.activeTypings = DeleteKey(@, key)],
                     <<"onChatMessageComplete", ty.msg>>)
       ELSE ArmTypingTimer(e2, key, totalChars, WORD_SPEED_MS + jitter)

\* the closure without `if (this.state.phase !== 'playing') return`
TypingTick_NoPhaseGuard(e, key, totalChars, jitter) ==
  IF key \notin DOMAIN e.activeTypings THEN e
  ELSE
    LET ty == e.activeTypings[key]
        ci == At0(ty.wordEnds, ty.wordIndex)
        e1 == [e EXCEPT !.activeTypings[key].charIndex = ci,
                        !.activeTypings[key].wordIndex = @ + 1]
        e2 == Callback(e1, <<"onChatMessage", ty.msg, ci, totalChars>>)
    IN IF Ge(ci, totalChars - 1)
       THEN Callback([e2 EXCEPT !.activeTypings = DeleteKey(@, key)],
                     <<"onChatMessageComplete", ty.msg>>)
       ELSE ArmTypingTimer(e2, key, totalChars, WORD_SPEED_MS + jitter)

\* the closure `tick` of _scheduleTypingTick that holds key and totalChars,
\* run by the host
TypingTick(e, key, totalChars, jitter) ==
  IF e.state.phase # "playing" THEN e
  ELSE IF key \notin DOMAIN e.activeTypings THEN e
  ELSE
    LET ty == e.activeTypings[key]
        ci == At0(ty.wordEnds, ty.wordIndex)
        e1 == [e EXCEPT !.activeTypings[key].charIndex = ci,
                        !.activeTypings[key].wordIndex = @ + 1]
        e2 == Callback(e1, <<"onChatMessage", ty.msg, ci, totalChars>>)
    IN IF Ge(ci, totalChars - 1)
       THEN Callback([e2 EXCEPT !.activeTypings = DeleteKey(@, key)],
                     <<"onChatMessageComplete", ty.msg>>)
       ELSE ArmTypingTimer(e2, key, totalChars, WORD_SPEED_MS + jitter)

\* _startTyping without the early return for a single-word message
StartTyping_AlwaysSession(e, msg, t) ==
  LET key == KeyOf(msg)
      totalChars == Len(msg.text)
      wordEnds == ComputeWordEnds(msg.text)
      firstEnd == At0(wordEnds, 0)
      e1 == Callback(e, <<"onChatMessage", msg, firstEnd, totalChars>>)
      typing == [msg |-> msg, text |-> msg.text, charIndex |-> firstEnd,
                 wordEnds |-> wordEnds, wordIndex |-> 1, intervalId |-> Null]
  IN ScheduleTypingTick([e1 EXCEPT !.activeTypings = SetKey(@, key, typing)],
                        key, t)

\* _startTyping
StartTyping(e, msg, t) ==
  LET key == KeyOf(msg)
      totalChars == Len(msg.text)
      wordEnds == ComputeWordEnds(msg.text)
      firstEnd == At0(wordEnds, 0)
      e1 == Callback(e, <<"onChatMessage", msg, firstEnd, totalChars>>)
      typing == [msg |-> msg, text |-> msg.text, charIndex |-> firstEnd,
                 wordEnds |-> wordEnds, wordIndex |-> 1, intervalId |-> Null]
  IN IF Len(wordEnds) <= 1
     THEN Callback(e1, <<"onChatMessageComplete", msg>>)
     ELSE ScheduleTypingTick([e1 EXCEPT !.activeTypings = SetKey(@, key, typing)],
                             key, t)

\* _resumeTypings: every stored session without a timer gets one
RECURSIVE ResumeKeys(_, _, _)
ResumeKeys(e, keys, t) ==
  IF keys = {} THEN e
  ELSE LET k == CHOOSE x \in keys : TRUE
           e1 == IF e.activeTypings[k].intervalId = Null
                 THEN ScheduleTypingTick(e, k, t)
                 ELSE e
       IN ResumeKeys(e1, keys \ {k}, t)

\* play() without the call of _resumeTypings
ResumeTypings_None(e, t) == e

\* _resumeTypings
ResumeTypings(e, t) == ResumeKeys(e, DOMAIN e.activeTypings, t)

\* performance.now() read in a handler entered at t, after the callbacks the
\* handler has invoked so far
ClockAfter(e, t) == t + callbackMs * Len(e.calls)

\* _fireEvent without `this.state.currentPhase = ev.event.phase`
FireEvent_KeepPhase(e, ev, t) ==
  CASE ev.type = "phase-transition" ->
         Callback(e, <<"onPhaseChange", ev.event.phase>>)
    [] ev.type = "chat" -> StartTyping(e, ev.event, t)
    [] ev.type = "protocol-card" ->
         LET e1 == Callback(e, <<"onProtocolCard", ev.event>>)
         IN IF ev.event.isError
            THEN [e1 EXCEPT !.microPauseStartMs = Some(ClockAfter(e1, t))]
            ELSE e1
    [] ev.type = "signal-flow" -> Callback(e, <<"onSignalFlow", ev.event.json>>)

\* _fireEvent revealing the first sub-card of a card that carries sub-cards
FireEvent_WithSubCard(e, ev, t) ==
  CASE ev.type = "phase-transition" ->
         Callback([e EXCEPT !.state.currentPhase = ev.event.phase],
                  <<"onPhaseChange", ev.event.phase>>)
    [] ev.type = "chat" -> StartTyping(e, ev.event, t)
    [] ev.type = "protocol-card" ->
         LET e1 == Callback(e, <<"onProtocolCard", ev.event>>)
             e2 == IF "subCards" \in DOMAIN ev.event
                   THEN Callback(e1, <<"onProtocolSubCard", ev.event,
                                       ev.event.subCards[1]>>)
                   ELSE e1
         IN IF ev.event.isError
            THEN [e2 EXCEPT !.microPauseStartMs = Some(ClockAfter(e2, t))]
            ELSE e2
    [] ev.type = "signal-flow" -> Callback(e, <<"onSignalFlow", ev.event.json>>)

\* _fireEvent
FireEvent(e, ev, t) ==
  CASE ev.type = "phase-transition" ->
         Callback([e EXCEPT !.state.currentPhase = ev.event.phase],
                  <<"onPhaseChange", ev.event.phase>>)
    [] ev.type = "chat" -> StartTyping(e, ev.event, t)
    [] ev.type = "protocol-card" ->
         LET e1 == Callback(e, <<"onProtocolCard", ev.event>>)
         IN IF ev.event.isError
            THEN [e1 EXCEPT !.microPauseStartMs = Some(ClockAfter(e1, t))]
            ELSE e1
    [] ev.type = "signal-flow" -> Callback(e, <<"onSignalFlow", ev.event.json>>)

\* the loop body without `s.fired = true`
FireOne_NoMark(e, i, elapsed, t) ==
  IF ~e.scheduled[i].fired /\ e.scheduled[i].fireAtMs <= elapsed
  THEN FireEvent([e EXCEPT !.firedNow = Append(@, i)], e.scheduled[i].event, t)
  ELSE e

\* one iteration of the loop over this.scheduled in _tick
FireOne(e, i, elapsed, t) ==
  IF ~e.scheduled[i].fired /\ e.scheduled[i].fireAtMs <= elapsed
  THEN FireEvent([e EXCEPT !.scheduled[i].fired = TRUE,
                           !.firedNow = Append(@, i)],
                 e.scheduled[i].event, t)
  ELSE e

\* the loop with a `break` after the first event it fires
RECURSIVE FireDue_OnePerTick(_, _, _, _)
FireDue_OnePerTick(e, i, elapsed, t) ==
  IF i > Len(e.scheduled) THEN e
  ELSE IF ~e.scheduled[i].fired /\ e.scheduled[i].fireAtMs <= elapsed
       THEN FireOne(e, i, elapsed, t)
       ELSE FireDue_OnePerTick(e, i + 1, elapsed, t)

\* for (const s of this.scheduled) { ... }, from position i on
RECURSIVE FireDue(_, _, _, _)
FireDue(e, i, elapsed, t) ==
  IF i > Len(e.scheduled) THEN e
  ELSE FireDue(FireOne(e, i, elapsed, t), i + 1, elapsed, t)

\* the end of _tick without `this.state.phase = 'complete'`
FinishTick_NoPhase(e, elapsed) ==
  LET e1 == Callback(e, <<"onProgress", elapsed, scenario.totalDurationMs>>)
  IN IF elapsed >= scenario.totalDurationMs
     THEN Callback(e1, <<"onComplete">>)
     ELSE RequestFrame(e1)

\* the end of _tick reporting progress only when the run goes on
FinishTick_NoFinalProgress(e, elapsed) ==
  IF elapsed >= scenario.totalDurationMs
  THEN Callback([e EXCEPT !.state.phase = "complete"], <<"onComplete">>)
  ELSE RequestFrame(Callback(e, <<"onProgress", elapsed, scenario.totalDurationMs>>))

\* the end of _tick: report progress, complete or request the next frame
FinishTick(e, elapsed) ==
  LET e1 == Callback(e, <<"onProgress", elapsed, scenario.totalDurationMs>>)
  IN IF elapsed >= scenario.totalDurationMs
     THEN Callback([e1 EXCEPT !.state.phase = "complete"], <<"onComplete">>)
     ELSE RequestFrame(e1)

\* _tick once any micro-pause is over
RunTick(e, t) ==
  LET elapsed == Elapsed(e, t)
      e1 == [e EXCEPT !.state.elapsedMs = elapsed]
  IN FinishTick(FireDue(e1, 1, elapsed, t), elapsed)

\* _tick without the micro-pause block
Tick_NoFreeze(e, t) ==
  IF e.state.phase # "playing" THEN e
  ELSE RunTick(e, t)

\* _tick shifting the origin by the nominal micro-pause duration
Tick_NominalShift(e, t) ==
  IF e.state.phase # "playing" THEN e
  ELSE IF e.microPauseStartMs # Null
  THEN LET frozenMs == t - e.microPauseStartMs[1]
       IN IF frozenMs < microPauseDurationMs
          THEN RequestFrame(e)
          ELSE RunTick([e EXCEPT !.startTimeMs = Some(@[1] + microPauseDurationMs),
                                 !.microPauseStartMs = Null], t)
  ELSE RunTick(e, t)

\* _tick returning from an unfinished micro-pause without requesting a frame
Tick_FreezeStopsLoop(e, t) ==
  IF e.state.phase # "playing" THEN e
  ELSE IF e.microPauseStartMs # Null
  THEN LET frozenMs == t - e.microPauseStartMs[1]
       IN IF frozenMs < microPauseDurationMs
          THEN e
          ELSE RunTick([e EXCEPT !.startTimeMs = Some(@[1] + frozenMs),
                                 !.microPauseStartMs = Null], t)
  ELSE RunTick(e, t)

\* _tick
Tick(e, t) ==
  IF e.state.phase # "playing" THEN e
  ELSE IF e.microPauseStartMs # Null
  THEN LET frozenMs == t - e.microPauseStartMs[1]
       IN IF frozenMs < microPauseDurationMs
          THEN RequestFrame(e)
          ELSE RunTick([e EXCEPT !.startTimeMs = Some(@[1] + frozenMs),
                                 !.microPauseStartMs = Null], t)
  ELSE RunTick(e, t)

\* play whose resume takes the current time as the new origin
PlayOp_NoOffset(e, t) ==
  IF e.state.phase = "complete" THEN e
  ELSE IF e.state.phase = "playing" THEN e
  ELSE
    LET e1 == IF e.state.phase = "idle"
              THEN [e EXCEPT !.startTimeMs = Some(t), !.pausedAtMs = 0]
              ELSE [e EXCEPT !.startTimeMs = Some(t)]
        e2 == [e1 EXCEPT !.state.phase = "playing"]
    IN Tick(ResumeTypings(e2, t), t)

\* play without `if (this.state.phase === 'playing') return`
PlayOp_NoPlayingGuard(e, t) ==
  IF e.state.phase = "complete" THEN e
  ELSE
    LET e1 == IF e.state.phase = "idle"
              THEN [e EXCEPT !.startTimeMs = Some(t), !.pausedAtMs = 0]
              ELSE IF e.state.phase = "paused"
                   THEN [e EXCEPT !.startTimeMs = Some(t - e.pausedAtMs)]
                   ELSE e
        e2 == [e1 EXCEPT !.state.phase = "playing"]
    IN Tick(ResumeTypings(e2, t), t)

\* play
PlayOp(e, t) ==
  IF e.state.phase = "complete" THEN e
  ELSE IF e.state.phase = "playing" THEN e
  ELSE
    LET e1 == IF e.state.phase = "idle"
              THEN [e EXCEPT !.startTimeMs = Some(t), !.pausedAtMs = 0]
              ELSE [e EXCEPT !.startTimeMs = Some(t - e.pausedAtMs)]
        e2 == [e1 EXCEPT !.state.phase = "playing"]
    IN Tick(ResumeTypings(e2, t), t)

\* a pause() that clears the timers and then discards the sessions
PauseTypings_Discard(e) ==
  LET armed == {k \in DOMAIN e.activeTypings : e.activeTypings[k].intervalId # Null}
      ids == {e.activeTypings[k].intervalId[1] : k \in armed}
  IN [e EXCEPT !.timers = {tm \in @ : tm.id \notin ids},
               !.activeTypings = EmptyMap]

\* the forEach of pause(): clearInterval and intervalId = null where armed
PauseTypings(e) ==
  LET armed == {k \in DOMAIN e.activeTypings : e.activeTypings[k].intervalId # Null}
      ids == {e.activeTypings[k].intervalId[1] : k \in armed}
  IN [e EXCEPT !.timers = {tm \in @ : tm.id \notin ids},
               !.activeTypings =
                  IF DOMAIN @ = {} THEN @
                  ELSE [k \in DOMAIN @ |-> [@[k] EXCEPT !.intervalId = Null]]]

\* pause without cancelAnimationFrame
PauseOp_KeepFrame(e, t) ==
  IF e.state.phase # "playing" THEN e
  ELSE PauseTypings([e EXCEPT !.state.phase = "paused",
                              !.pausedAtMs = Elapsed(e, t)])

\* pause without `if (this.state.phase !== 'playing') return`
PauseOp_NoGuard(e, t) ==
  PauseTypings(CancelFrame([e EXCEPT !.state.phase = "paused",
                                     !.pausedAtMs = Elapsed(e, t)]))

\* pause
PauseOp(e, t) ==
  IF e.state.phase # "playing" THEN e
  ELSE PauseTypings(CancelFrame([e EXCEPT !.state.phase = "paused",
                                          !.pausedAtMs = Elapsed(e, t)]))

\* reset without the forEach and the clear() of the typing sessions
ClearTypings_Skip(e) == e

\* the forEach of reset(): clearInterval where armed, then clear()
ClearTypings(e) ==
  LET armed == {k \in DOMAIN e.activeTypings : e.activeTypings[k].intervalId # Null}
      ids == {e.activeTypings[k].intervalId[1] : k \in armed}
  IN [e EXCEPT !.timers = {tm \in @ : tm.id \notin ids},
               !.activeTypings = EmptyMap]

\* reset without `this.microPauseStartMs = null`
ResetOp_KeepFreeze(e) ==
  LET e1 == ClearTypings(CancelFrame(e))
  IN [e1 EXCEPT !.startTimeMs = Null,
                !.pausedAtMs = 0,
                !.state = InitialState(scenario),
                !.scheduled = [i \in DOMAIN @ |-> [@[i] EXCEPT !.fired = FALSE]]]

\* reset without clearing the fired flags
ResetOp_KeepFired(e) ==
  LET e1 == ClearTypings(CancelFrame(e))
  IN [e1 EXCEPT !.startTimeMs = Null,
                !.pausedAtMs = 0,
                !.microPauseStartMs = Null,
                !.state = InitialState(scenario)]

\* reset
ResetOp(e) ==
  LET e1 == ClearTypings(CancelFrame(e))
  IN [e1 EXCEPT !.startTimeMs = Null,
                !.pausedAtMs = 0,
                !.microPauseStartMs = Null,
                !.state = InitialState(scenario),
                !.scheduled = [i \in DOMAIN @ |-> [@[i] EXCEPT !.fired = FALSE]]]

----------------------------------------------------------------------------
\* The character-granularity engine of components/simulation/engine.ts: no
\* micro-pause, no _resumeTypings, the cursor of a session in a variable of
\* the closure that setTimeout holds

TYPING_SPEED_MS == 30
TYPING_JITTER_MS == 10

\* Math.floor(Math.random() * TYPING_JITTER_MS * 2) - TYPING_JITTER_MS: the
\* extremes of its range
CharJitters == {0 - TYPING_JITTER_MS, TYPING_JITTER_MS - 1}

\* setTimeout(tick, delay) by the closure of msg whose charIndex is ci
CharArmTimer(e, msg, ci, delay) ==
  LET h == NewHandle(TimerHandles(e))
  IN [e EXCEPT !.timers = @ \cup {[id |-> h, key |-> KeyOf(msg), remaining |-> delay,
                                   msg |-> msg, charIndex |-> ci]},
               !.activeTypings[KeyOf(msg)].intervalId = Some(h)]

\* the closure `tick` of _startTyping, run by the host from timeout tm
CharTypingTick(e, tm, jitter) ==
  IF e.state.phase # "playing" THEN e
  ELSE IF tm.key \notin DOMAIN e.activeTypings THEN e
  ELSE
    LET totalChars == Len(tm.msg.text)
        e1 == Callback(e, <<"onChatMessage", tm.msg, tm.charIndex, totalChars>>)
        charIndex == tm.charIndex + 1
    IN IF charIndex >= totalChars
       THEN Callback([e1 EXCEPT !.activeTypings = DeleteKey(@, tm.key)],
                     <<"onChatMessageComplete", tm.msg>>)
       ELSE CharArmTimer(e1, tm.msg, charIndex, TYPING_SPEED_MS + jitter)

\* _startTyping
CharStartTyping(e, msg) ==
  LET e1 == Callback(e, <<"onChatMessage", msg, 0, Len(msg.text)>>)
      typing == [msg |-> msg, text |-> msg.text, charIndex |-> 1, intervalId |-> Null]
  IN CharArmTimer([e1 EXCEPT !.activeTypings = SetKey(@, KeyOf(msg), typing)],
                  msg, 1, TYPING_SPEED_MS)

\* _fireEvent
CharFireEvent(e, ev) ==
  CASE ev.type = "phase-transition" ->
         Callback([e EXCEPT !.state.currentPhase = ev.event.phase],
                  <<"onPhaseChange", ev.event.phase>>)
    [] ev.type = "chat" -> CharStartTyping(e, ev.event)
    [] ev.type = "protocol-card" -> Callback(e, <<"onProtocolCard", ev.event>>)
    [] ev.type = "signal-flow" -> Callback(e, <<"onSignalFlow", ev.event.json>>)

\* for (const s of this.scheduled) { ... }, from position i on
RECURSIVE CharFireDue(_, _, _)
CharFireDue(e, i, elapsed) ==
  IF i > Len(e.scheduled) THEN e
  ELSE IF ~e.scheduled[i].fired /\ e.scheduled[i].fireAtMs <= elapsed
       THEN CharFireDue(CharFireEvent([e EXCEPT !.scheduled[i].fired = TRUE,
                                                !.firedNow = Append(@, i)],
                                      e.scheduled[i].event),
                        i + 1, elapsed)
       ELSE CharFireDue(e, i + 1, elapsed)

\* _tick
CharTick(e, t) ==
  IF e.state.phase # "playing" THEN e
  ELSE LET elapsed == Elapsed(e, t)
           e1 == [e EXCEPT !.state.elapsedMs = elapsed]
       IN FinishTick(CharFireDue(e1, 1, elapsed), elapsed)

\* play: no typing session is re-armed
CharPlayOp(e, t) ==
  IF e.state.phase = "complete" THEN e
  ELSE IF e.state.phase = "playing" THEN e
  ELSE
    LET e1 == IF e.state.phase = "idle"
              THEN [e EXCEPT !.startTimeMs = Some(t), !.pausedAtMs = 0]
              ELSE [e EXCEPT !.startTimeMs = Some(t - e.pausedAtMs)]
    IN CharTick([e1 EXCEPT !.state.phase = "playing"], t)

\* reset
CharResetOp(e) ==
  LET e1 == ClearTypings(CancelFrame(e))
  IN [e1 EXCEPT !.startTimeMs = Null,
                !.pausedAtMs = 0,
                !.state = InitialState(scenario),
                !.scheduled = [i \in DOMAIN @ |-> [@[i] EXCEPT !.fired = FALSE]]]

----------------------------------------------------------------------------
\* Bookkeeping about the run, derived from what a handler did

\* the elapsed values reported by onProgress in a call trace
ProgressOf(cs) == SelectSeq(cs, LAMBDA c : c[1] = "onProgress")

CompletesOf(cs) == SelectSeq(cs, LAMBDA c : c[1] = "onComplete")

\* the chat messages of a scenario
MessagesOf(sc) ==
  {sc.events[i].event : i \in {j \in DOMAIN sc.events : sc.events[j].type = "chat"}}

\* no reveal logged for any message
EmptyTypingLog(sc) ==
  [m \in MessagesOf(sc) |-> [cursors |-> <<>>, completes |-> 0, atPause |-> 0]]

\* the log after the callbacks cs[i..] of a handler
RECURSIVE LogCalls(_, _, _)
LogCalls(log, cs, i) ==
  IF i > Len(cs) THEN log
  ELSE LogCalls(
         CASE cs[i][1] = "onChatMessage" ->
                [log EXCEPT ![cs[i][2]].cursors = Append(@, cs[i][3])]
           [] cs[i][1] = "onChatMessageComplete" ->
                [log EXCEPT ![cs[i][2]].completes = Min(MaxCount, @ + 1)]
           [] OTHER -> log,
         cs, i + 1)

\* the messages that have a session stored
StoredMessages(e) == {e.activeTypings[k].msg : k \in DOMAIN e.activeTypings}

\* the error-card callbacks in a call trace
ErrorCardsOf(cs) ==
  SelectSeq(cs, LAMBDA c : c[1] = "onProtocolCard" /\ c[2].isError)

\* the next instant at which the host dispatches handlers
NextGrid(t) == ((t \div Quantum) + 1) * Quantum

\* op ran on engine e0 and left engine e1
Record(op, e0, e1) ==
  /\ calls' = e1.calls
  /\ firedNow' = e1.firedNow
  /\ lastOp' = op
  /\ fireLog' = IF op = "reset" THEN <<>> ELSE fireLog \o e1.firedNow
  /\ completeCount' =
       IF op = "reset" THEN 0
       ELSE Min(MaxCount, completeCount + Len(CompletesOf(e1.calls)))
  /\ lastProgress' =
       IF op = "reset" THEN Null
       ELSE IF ProgressOf(e1.calls) # <<>>
            THEN Some(ProgressOf(e1.calls)[Len(ProgressOf(e1.calls))][2])
            ELSE lastProgress
  /\ resetAfterFiring' = (resetAfterFiring \/ (op = "reset" /\ fireLog # <<>>))
  /\ resetFrom' =
       IF op = "reset"
       THEN Some([phase |-> e0.state.phase,
                  freeze |-> e0.microPauseStartMs # Null,
                  typing |-> DOMAIN e0.activeTypings # {}])
       ELSE IF op = "advance" THEN resetFrom
       ELSE Null
  /\ typingLog' =
       IF op = "reset" THEN EmptyTypingLog(scenario)
       ELSE IF op = "pause" /\ e0.state.phase = "playing"
            THEN [m \in DOMAIN typingLog |->
                   [typingLog[m] EXCEPT !.atPause =
                      IF m \in StoredMessages(e0) THEN Len(typingLog[m].cursors)
                      ELSE 0]]
            ELSE LogCalls(typingLog, e1.calls, 1)
  /\ errorFiredAt' =
       IF op = "reset" THEN Null
       ELSE IF ErrorCardsOf(e1.calls) # <<>> THEN Some(now)
       ELSE IF /\ op = "advance"
               /\ errorFiredAt # Null
               /\ NextGrid(now) - errorFiredAt[1] >= microPauseDurationMs
            THEN Null
            ELSE errorFiredAt
  /\ freezeSpan' =
       IF /\ op # "reset"
          /\ e0.microPauseStartMs # Null
          /\ e1.microPauseStartMs # e0.microPauseStartMs
       THEN Some([span |-> now - e0.microPauseStartMs[1], paused |-> pausedInFreeze])
       ELSE Null
  /\ hostLag' =
       IF hostLag = Null THEN Null
       ELSE IF op = "advance" THEN Some(hostLag[1] + 1)
       ELSE IF op = "tick" \/ (op = "play" /\ e0.state.phase \in {"idle", "paused"})
            THEN Some(0)
            ELSE hostLag
  /\ pauseClock' =
       IF op = "reset" THEN 0
       ELSE IF op = "pause" /\ e0.state.phase = "playing"
            THEN now - e0.startTimeMs[1]
            ELSE pauseClock
  /\ pauseNow' =
       IF op = "reset" THEN 0
       ELSE IF op = "pause" /\ e0.state.phase = "playing" THEN now
            ELSE pauseNow
  /\ resumeNow' =
       IF op = "reset" THEN 0
       ELSE IF op = "play" /\ e0.state.phase = "paused" THEN now
            ELSE resumeNow
  /\ cleanResume' =
       IF op = "reset" \/ (op = "pause" /\ e0.state.phase = "playing") THEN FALSE
       ELSE IF e0.microPauseStartMs # Null THEN FALSE
       ELSE IF op = "play" /\ e0.state.phase = "paused" THEN TRUE
            ELSE cleanResume
  /\ pausedInFreeze' =
       IF e1.microPauseStartMs = Null \/ e1.microPauseStartMs # e0.microPauseStartMs
       THEN FALSE
       ELSE IF op = "pause" /\ e0.state.phase = "playing" THEN TRUE
            ELSE pausedInFreeze

\* the engine fields after a handler
Commit(e) ==
  /\ state' = e.state
  /\ startTimeMs' = e.startTimeMs
  /\ pausedAtMs' = e.pausedAtMs
  /\ rafId' = e.rafId
  /\ scheduled' = e.scheduled
  /\ activeTypings' = e.activeTypings
  /\ microPauseStartMs' = e.microPauseStartMs
  /\ frames' = e.frames
  /\ timers' = e.timers

----------------------------------------------------------------------------
\* The state after new SimulationEngine(scenario, callbacks)

Constructed ==
  /\ now = 0
  /\ state = InitialState(scenario)
  /\ startTimeMs = Null
  /\ pausedAtMs = 0
  /\ rafId = Null
  /\ scheduled = BuildSchedule(scenario)
  /\ activeTypings = EmptyMap
  /\ microPauseStartMs = Null
  /\ frames = {}
  /\ timers = {}
  /\ calls = <<>>
  /\ firedNow = <<>>
  /\ lastOp = "new"
  /\ fireLog = <<>>
  /\ completeCount = 0
  /\ lastProgress = Null
  /\ resetAfterFiring = FALSE
  /\ resetFrom = Null
  /\ pauseClock = 0
  /\ pauseNow = 0
  /\ resumeNow = 0
  /\ cleanResume = FALSE
  /\ pausedInFreeze = FALSE
  /\ typingLog = EmptyTypingLog(scenario)
  /\ errorFiredAt = Null
  /\ freezeSpan = Null
  /\ snapshot = Null

\* a renderer whose callbacks return within the clock's resolution
Init ==
  /\ scenario \in {Scenarios[i] : i \in DOMAIN Scenarios}
  /\ callbackMs = 0
  /\ hostLag = Null
  /\ Constructed

\* a renderer whose callbacks each take CallbackCost ms
InitSlow ==
  /\ scenario = SlowScenario
  /\ callbackMs = CallbackCost
  /\ hostLag = Null
  /\ Constructed

\* the host's countdown of the pending timeouts over d ms
Elapse(e, d) ==
  [e EXCEPT !.timers = {[tm EXCEPT !.remaining = IF @ > d THEN @ - d ELSE 0] : tm \in @}]

\* the object held by the caller after handler op: one that is this.state
\* itself shows the handler's writes to its fields, until reset() assigns a
\* new object to this.state
Held(snap, op, e0, e1) ==
  IF snap = Null \/ ~snap[1].live THEN snap
  ELSE IF op = "reset" THEN Some([live |-> FALSE, val |-> e0.state])
  ELSE Some([live |-> TRUE, val |-> e1.state])

\* handler op, entered on engine e0 at `now`, returns leaving engine e1; a
\* handler returns well within the span to the next dispatch
Return(op, e0, e1) ==
  /\ Commit(e1)
  /\ Record(op, e0, e1)
  /\ snapshot' = Held(snapshot, op, e0, e1)
  /\ UNCHANGED <<scenario, now, callbackMs>>

\* wall-clock time passes until the host dispatches handlers again
Advance ==
  /\ NextGrid(now) <= MaxNow
  /\ now' = NextGrid(now)
  /\ Commit(Elapse(Cur, NextGrid(now) - now))
  /\ Record("advance", Cur, Cur)
  /\ UNCHANGED <<scenario, callbackMs, snapshot>>

\* the caller invokes play()
Play == Return("play", Cur, PlayOp(Cur, now))

\* the caller invokes pause()
Pause == Return("pause", Cur, PauseOp(Cur, now))

\* the caller invokes reset()
Reset == Return("reset", Cur, ResetOp(Cur))

\* the host runs a pending animation-frame callback: () => this._tick()
Frame ==
  \E h \in frames :
    LET e0 == [Cur EXCEPT !.frames = @ \ {h}]
    IN Return("tick", Cur, Tick(e0, now))

\* the host runs a timeout that has come due: the typing closure `tick`
TypingTimer ==
  \E tm \in timers : \E jitter \in Jitters :
    /\ tm.remaining = 0
    /\ LET e0 == [Cur EXCEPT !.timers = @ \ {tm}]
       IN Return("typing", Cur, TypingTick(e0, tm.key, tm.total, jitter))

Next == Advance \/ Play \/ Pause \/ Reset \/ Frame \/ TypingTimer

Spec == Init /\ [][Next]_vars

SpecSlow == InitSlow /\ [][Next]_vars

----------------------------------------------------------------------------
\* Construction from a scenario with a negative due offset

InitBad ==
  /\ scenario = BadScenario
  /\ ~ConstructorThrows(scenario)
  /\ callbackMs = 0
  /\ hostLag = Null
  /\ Constructed

SpecBad == InitBad /\ [][Next]_vars

----------------------------------------------------------------------------
\* One message of any short text

InitText ==
  /\ \E txt \in Texts : scenario = TextScenario(txt)
  /\ callbackMs = 0
  /\ hostLag = Null
  /\ Constructed

SpecText == InitText /\ [][Next]_vars

----------------------------------------------------------------------------
\* A scenario in which two messages share a session key

InitShared ==
  /\ scenario = SharedKeyScenario
  /\ callbackMs = 0
  /\ hostLag = Null
  /\ Constructed

SpecShared == InitShared /\ [][Next]_vars

----------------------------------------------------------------------------
\* A caller that keeps the object getState() returned and writes to it

InitSnap ==
  /\ scenario = SnapScenario
  /\ callbackMs = 0
  /\ hostLag = Null
  /\ Constructed

\* the caller invokes getState() and keeps the result
GetState ==
  /\ snapshot' = Some(GetStateOp(Cur))
  /\ Commit(Cur)
  /\ Record("getState", Cur, Cur)
  /\ UNCHANGED <<scenario, now, callbackMs>>

\* the assignments the caller makes to fields of the object it holds
Writes == {[field |-> "elapsedMs", value |-> 0 - 1],
           [field |-> "phase", value |-> "complete"]}

\* the caller assigns a field of the object it holds; the write lands in
\* this.state when that is the object held
MutateSnapshot ==
  /\ snapshot # Null
  /\ \E w \in Writes :
       LET v == [snapshot[1].val EXCEPT ![w.field] = w.value]
       IN /\ v # snapshot[1].val
          /\ snapshot' = Some([snapshot[1] EXCEPT !.val = v])
          /\ Commit(IF snapshot[1].live THEN [Cur EXCEPT !.state = v] ELSE Cur)
  /\ Record("mutate", Cur, Cur)
  /\ UNCHANGED <<scenario, now, callbackMs>>

NextSnap ==
  Advance \/ Play \/ Pause \/ Reset \/ Frame \/ GetState \/ MutateSnapshot

SpecSnap == InitSnap /\ [][NextSnap]_vars

----------------------------------------------------------------------------
\* An uninterrupted run: play() with no pause() and no reset(), on a host
\* whose clock keeps advancing while the engine plays and which runs every
\* requested frame within MaxLag dispatch instants

InitRun ==
  /\ scenario \in {Scenarios[i] : i \in DOMAIN Scenarios}
  /\ callbackMs = 0
  /\ hostLag = Some(0)
  /\ Constructed

RunAdvance ==
  /\ state.phase = "playing"
  /\ hostLag[1] < MaxLag
  /\ Advance

NextRun == RunAdvance \/ Play \/ Frame \/ TypingTimer

\* the clock moves on: the RunAdvance steps, by what they do to `now`
ClockMoves ==
  /\ state.phase = "playing"
  /\ hostLag[1] < MaxLag
  /\ NextGrid(now) <= MaxNow
  /\ now' = NextGrid(now)

\* a frame callback requested before the current dispatch instant runs: the
\* Frame steps that end a lag, by what they do to hostLag
DueFrameRuns ==
  /\ frames # {}
  /\ hostLag[1] > 0
  /\ hostLag' = Some(0)

\* time keeps advancing and every requested tick eventually runs
SpecRun ==
  InitRun /\ [][NextRun]_vars /\ WF_now(ClockMoves) /\ WF_hostLag(DueFrameRuns)

----------------------------------------------------------------------------
\* The character-granularity engine under the same host

InitChar ==
  /\ scenario = CharScenario
  /\ callbackMs = 0
  /\ hostLag = Null
  /\ Constructed

CharPlay == Return("play", Cur, CharPlayOp(Cur, now))

CharReset == Return("reset", Cur, CharResetOp(Cur))

CharFrame ==
  \E h \in frames :
    LET e0 == [Cur EXCEPT !.frames = @ \ {h}]
    IN Return("tick", Cur, CharTick(e0, now))

CharTypingTimer ==
  \E tm \in timers : \E jitter \in CharJitters :
    /\ tm.remaining = 0
    /\ LET e0 == [Cur EXCEPT !.timers = @ \ {tm}]
       IN Return("typing", Cur, CharTypingTick(e0, tm, jitter))

NextChar == Advance \/ CharPlay \/ Pause \/ CharReset \/ CharFrame \/ CharTypingTimer

SpecChar == InitChar /\ [][NextChar]_vars

\* the character-granularity engine with one message of 1 to MaxTextLen
\* characters
InitCharText ==
  /\ \E txt \in LetterTexts : scenario = TextScenario(txt)
  /\ callbackMs = 0
  /\ hostLag = Null
  /\ Constructed

SpecCharText == InitCharText /\ [][NextChar]_vars

----------------------------------------------------------------------------
\* Properties

\* a drive tick computed an elapsed value in the last handler
TickComputed == ProgressOf(calls) # <<>>

\* the callback that firing an event starts with: its name and payload
FirstCallOf(ev) ==
  CASE ev.type = "phase-transition" -> <<"onPhaseChange", ev.event.phase>>
    [] ev.type = "chat" -> <<"onChatMessage", ev.event>>
    [] ev.type = "protocol-card" -> <<"onProtocolCard", ev.event>>
    [] ev.type = "signal-flow" -> <<"onSignalFlow", ev.event.json>>

\* the event callbacks of a tick's call trace: everything a tick invokes
\* except the immediate completion of a one-word message, progress and complete
EventCalls(cs) ==
  SelectSeq(cs, LAMBDA c : c[1] \in {"onPhaseChange", "onChatMessage",
                                      "onProtocolCard", "onSignalFlow"})

\* the last handler invoked one event callback per position it fired, in order
CallsMatchFired ==
  /\ Len(EventCalls(calls)) = Len(firedNow)
  /\ \A k \in DOMAIN firedNow :
       SubSeq(EventCalls(calls)[k], 1, 2) = FirstCallOf(scheduled[firedNow[k]].event)

\* position of a schedule entry's event in the scenario's events list
InputPos(s) == CHOOSE k \in DOMAIN scenario.events : scenario.events[k] = s.event

\* A comes before B in schedule order
Precedes(a, b) ==
  \/ a.fireAtMs < b.fireAtMs
  \/ (a.fireAtMs = b.fireAtMs /\ InputPos(a) < InputPos(b))

\* C1: with no reset in between, every scheduled event's callback is invoked
\* at most once, and only in a tick whose computed elapsed is at least the
\* event's due offset
C1_FiredAtMostOnceWhenDue ==
  /\ \A i, j \in DOMAIN fireLog : i # j => fireLog[i] # fireLog[j]
  /\ lastOp \in {"play", "tick"} => CallsMatchFired
  /\ lastOp \notin {"play", "tick"} => firedNow = <<>>
  /\ firedNow # <<>> =>
       /\ TickComputed
       /\ ProgressOf(calls)[1][2] = state.elapsedMs
       /\ \A k \in DOMAIN firedNow :
            scheduled[firedNow[k]].fireAtMs <= state.elapsedMs

\* an event fired earlier, the engine was paused and resumed, and the tick of
\* the resume computed an elapsed past that event without firing it again
C1_Witness ==
  /\ lastOp = "play"
  /\ TickComputed
  /\ pauseNow > 0
  /\ fireLog # <<>>
  /\ firedNow = <<>>
  /\ scheduled[fireLog[1]].fireAtMs <= state.elapsedMs

\* C2: after a tick that computed elapsed E no entry due at or before E is
\* unfired, and after the completing tick none due at or before the total
\* duration is
C2_NoDueEventLeftUnfired ==
  /\ TickComputed =>
       \A i \in DOMAIN scheduled :
         scheduled[i].fireAtMs <= state.elapsedMs => scheduled[i].fired
  /\ state.phase = "complete" =>
       \A i \in DOMAIN scheduled :
         scheduled[i].fireAtMs <= scenario.totalDurationMs => scheduled[i].fired

\* one tick fired three or more events, with two different due offsets
C2_Witness ==
  /\ TickComputed
  /\ Len(firedNow) >= 3
  /\ \E a, b \in DOMAIN firedNow :
       scheduled[firedNow[a]].fireAtMs < scheduled[firedNow[b]].fireAtMs

\* C3: with no reset in between, callbacks are invoked in schedule order
\* (ascending due offset, ties in the order of the scenario's events list),
\* within a tick and across the run
C3_FiredInScheduleOrder ==
  /\ \A a, b \in DOMAIN fireLog :
       Precedes(scheduled[fireLog[a]], scheduled[fireLog[b]]) => a < b
  /\ lastOp \in {"play", "tick"} => CallsMatchFired

\* events of two ticks are logged, and the last tick fired two events that
\* share a due offset
C3_Witness ==
  /\ Len(fireLog) > Len(firedNow)
  /\ \E a, b \in DOMAIN firedNow :
       /\ a < b
       /\ scheduled[firedNow[a]].fireAtMs = scheduled[firedNow[b]].fireAtMs
       /\ EventCalls(calls)[a][1] # EventCalls(calls)[b][1]

\* C4: between two resets the elapsed of successive progress callbacks and
\* the successive values of getState().elapsedMs never decrease, and
\* elapsedMs is constant while a micro-freeze is active
C4_ElapsedNeverDecreases ==
  [][lastOp' # "reset" =>
       /\ state'.elapsedMs >= state.elapsedMs
       /\ (lastProgress # Null /\ lastProgress' # Null
             => lastProgress'[1] >= lastProgress[1])
       /\ (microPauseStartMs # Null /\ microPauseStartMs' = microPauseStartMs
             => state'.elapsedMs = state.elapsedMs)]_vars

\* C5: after pause() with no micro-freeze at clock reading E and play() after
\* any delay, a tick computes E plus the time passed since that play()
C5_ResumeContinuesFromPause ==
  (cleanResume /\ TickComputed) =>
    state.elapsedMs = pauseClock + (now - resumeNow)

\* a tick after a resume that came two or more clock steps after the pause,
\* with time passed since the resume
C5_Witness ==
  /\ cleanResume
  /\ TickComputed
  /\ lastOp = "tick"
  /\ pauseClock > 0
  /\ resumeNow - pauseNow >= 2 * Quantum
  /\ now > resumeNow

\* C6: pause() during a micro-freeze and play() after any delay: the tick
\* that ends the freeze computes an elapsed not smaller than the elapsed at
\* which the error card fired
C6_PauseInFreezeKeepsElapsed ==
  [][(/\ pausedInFreeze
      /\ microPauseStartMs # Null
      /\ microPauseStartMs' # microPauseStartMs
      /\ lastOp' # "reset")
       => state'.elapsedMs >= state.elapsedMs]_vars

\* C7: after reset() from any state the snapshot is idle / pre-session / 0,
\* every entry is unfired, no session is stored and no micro-freeze is active
C7_ResetRestoresInitialState ==
  lastOp = "reset" =>
    /\ state = [phase |-> "idle", currentPhase |-> "pre-session", elapsedMs |-> 0,
                totalDurationMs |-> scenario.totalDurationMs]
    /\ \A i \in DOMAIN scheduled : ~scheduled[i].fired
    /\ DOMAIN activeTypings = {}
    /\ microPauseStartMs = Null

\* reset() was called while playing, in a micro-freeze, with a typing session
C7_Witness ==
  /\ lastOp = "reset"
  /\ resetFrom[1].phase = "playing"
  /\ resetFrom[1].freeze
  /\ resetFrom[1].typing

\* the schedule positions due at or before the total duration, ascending
DuePositions ==
  SelectSeq([i \in DOMAIN scheduled |-> i],
            LAMBDA i : scheduled[i].fireAtMs <= scenario.totalDurationMs)

\* C8: a run played to completion, after a reset as on a fresh engine, has
\* invoked the callbacks of every event due at or before the total duration,
\* in the order of the schedule built at construction
C8_ReplayAfterResetFiresAllInOrder ==
  /\ state.phase = "complete" =>
       SelectSeq(fireLog,
                 LAMBDA i : scheduled[i].fireAtMs <= scenario.totalDurationMs)
         = DuePositions
  /\ [i \in DOMAIN scheduled |-> [scheduled[i] EXCEPT !.fired = FALSE]]
       = BuildSchedule(scenario)

\* a run that was reset after events had fired has been replayed to completion
C8_Witness ==
  /\ resetAfterFiring
  /\ state.phase = "complete"
  /\ Len(fireLog) >= 3

\* C9: between resets onComplete is invoked at most once, by the tick that
\* first computes elapsed >= total, which also sets the phase to complete
C9_CompleteAtMostOnce ==
  /\ completeCount <= 1
  /\ completeCount = 1 <=> state.phase = "complete"
  /\ state.phase = "complete" => state.elapsedMs >= scenario.totalDurationMs
  /\ state.phase \in {"playing", "paused"} =>
       state.elapsedMs < scenario.totalDurationMs
  /\ CompletesOf(calls) # <<>> =>
       /\ lastOp \in {"play", "tick"}
       /\ Len(CompletesOf(calls)) = 1
       /\ calls[Len(calls)] = <<"onComplete">>
       /\ calls[Len(calls) - 1]
            = <<"onProgress", state.elapsedMs, scenario.totalDurationMs>>

\* play() or pause() was called on a completed run
C9_Witness ==
  /\ state.phase = "complete"
  /\ completeCount = 1
  /\ lastOp \in {"play", "pause"}

\* C10: every progress callback reports 0 <= elapsed <= total
C10_ProgressWithinBounds ==
  \A k \in DOMAIN ProgressOf(calls) :
    /\ 0 <= ProgressOf(calls)[k][2]
    /\ ProgressOf(calls)[k][2] <= ProgressOf(calls)[k][3]

\* the schedule positions fired since construction or the last reset that
\* carry chat message m
FiredPositionsOf(m) ==
  {i \in DOMAIN fireLog : scheduled[fireLog[i]].event.type = "chat"
                             /\ scheduled[fireLog[i]].event.event = m}

\* C11: after reset() returns and until the next play(), no callback of any
\* kind is invoked, whether the reset came mid-typing, during a micro-pause
\* or with a tick pending; nothing of the engine stays pending, and a reveal
\* or a chat-reveal-complete is only ever reported for a message fired since
\* the last reset, so a session interrupted by reset is never completed
C11_NoCallbackAfterReset ==
  /\ state.phase = "idle" =>
       /\ calls = <<>>
       /\ frames = {}
       /\ rafId = Null
       /\ activeTypings = EmptyMap
       /\ timers = {}
  /\ \A m \in DOMAIN typingLog :
       (typingLog[m].cursors # <<>> \/ typingLog[m].completes > 0)
         => FiredPositionsOf(m) # {}

\* time has passed since a reset() that interrupted a playing run with a
\* typing session stored, and the engine is still idle
C11_Witness ==
  /\ state.phase = "idle"
  /\ lastOp = "advance"
  /\ resetFrom # Null
  /\ resetFrom[1].phase = "playing"
  /\ resetFrom[1].typing

\* C12: after pause() returns and until the next play(), no drive tick and
\* no typing step takes effect: a step that ends paused invokes no callback
\* and fires nothing, pause() leaves no frame requested and no session with
\* a timer handle, and between two paused states no fired flag, no session
\* and no other engine field changes
C12_PausedIsInert ==
  [][/\ state'.phase = "paused" =>
          /\ calls' = <<>>
          /\ firedNow' = <<>>
          /\ frames' = {}
          /\ rafId' = Null
          /\ \A k \in DOMAIN activeTypings' : activeTypings'[k].intervalId = Null
     /\ (state.phase = "paused" /\ state'.phase = "paused") =>
          /\ state' = state
          /\ scheduled' = scheduled
          /\ activeTypings' = activeTypings
          /\ startTimeMs' = startTimeMs
          /\ pausedAtMs' = pausedAtMs
          /\ microPauseStartMs' = microPauseStartMs
          /\ typingLog' = typingLog
          /\ fireLog' = fireLog]_vars

\* time has passed since a pause() taken with a typing session stored, and
\* the engine is still paused
C12_Witness ==
  /\ state.phase = "paused"
  /\ lastOp = "advance"
  /\ now > pauseNow
  /\ activeTypings # EmptyMap

\* C13: for every typing session the cursors of its successive chat-reveal
\* callbacks are strictly increasing, across any interleaving of pause()
\* and play(); chat-reveal-complete is invoked at most once per fired
\* message, and only directly after a reveal of that message whose cursor
\* is the last index of its text
C13_RevealsIncreaseCompleteOnce ==
  /\ \A m \in DOMAIN typingLog :
       LET cs == typingLog[m].cursors
       IN /\ \A i \in 1..(Len(cs) - 1) : cs[i] < cs[i + 1]
          /\ typingLog[m].completes <= 1
          /\ typingLog[m].completes = 1 =>
               cs # <<>> /\ cs[Len(cs)] = Len(m.text) - 1
  /\ \A j \in DOMAIN calls :
       calls[j][1] = "onChatMessageComplete" =>
         /\ j > 1
         /\ calls[j - 1][1] = "onChatMessage"
         /\ calls[j - 1][2] = calls[j][2]
         /\ calls[j - 1][3] = Len(calls[j][2].text) - 1

\* a typing step has just completed a message whose reveal was interrupted
\* by pause() after at least one reveal and went on after play()
C13_Witness ==
  /\ lastOp = "typing"
  /\ \E m \in DOMAIN typingLog :
       /\ typingLog[m].completes = 1
       /\ typingLog[m].atPause >= 1
       /\ Len(typingLog[m].cursors) > typingLog[m].atPause + 1
       /\ \E j \in DOMAIN calls :
            calls[j][1] = "onChatMessageComplete" /\ calls[j][2] = m

\* the chat messages fired since construction or the last reset
FiredMessages == {m \in DOMAIN typingLog : FiredPositionsOf(m) # {}}

\* C14: every chat message that fires eventually gets its
\* chat-reveal-complete, whatever its due offset relative to the total
\* duration; in finite-run form: once the run is complete and neither a
\* frame nor a typing step is pending, every fired message has been completed
C14_FiredMessageCompletes ==
  (state.phase = "complete" /\ frames = {} /\ timers = {}) =>
    \A m \in FiredMessages : typingLog[m].completes >= 1

\* s is an initial segment of t
IsPrefix(s, t) == Len(s) <= Len(t) /\ \A i \in DOMAIN s : s[i] = t[i]

\* the pending timeouts of the session stored under key k
StepsOf(tms, k) == {tm \in tms : tm.key = k}

\* C16: play() from paused arms exactly one pending step, of the base
\* cadence, for every stored session, each of which pause() left without
\* one; and the cursors reported for a message are always an initial
\* segment of its word boundaries, so the first reveal after a resume is
\* the boundary right after the last one reported, none skipped or repeated
C16_ResumeArmsOneStepEach ==
  [][/\ (state.phase = "paused" /\ lastOp' = "play") =>
          \A k \in DOMAIN activeTypings :
            /\ activeTypings[k].intervalId = Null
            /\ k \in DOMAIN activeTypings'
            /\ Cardinality(StepsOf(timers', k)) = 1
            /\ \A tm \in StepsOf(timers', k) :
                 /\ activeTypings'[k].intervalId = Some(tm.id)
                 /\ tm.remaining = WORD_SPEED_MS
     /\ \A m \in DOMAIN typingLog' :
          IsPrefix(typingLog'[m].cursors, ComputeWordEnds(m.text))]_vars

\* a typing step has just made the first reveal of a message since the
\* pause() that interrupted it after at least one reveal
C16_Witness ==
  /\ lastOp = "typing"
  /\ resumeNow >= pauseNow
  /\ \E m \in DOMAIN typingLog :
       /\ typingLog[m].atPause >= 1
       /\ Len(typingLog[m].cursors) = typingLog[m].atPause + 1
       /\ \E j \in DOMAIN calls :
            calls[j][1] = "onChatMessage" /\ calls[j][2] = m

\* the step runs _tick with the engine playing: a frame callback, or a
\* play() that takes effect
ExecTick ==
  \/ lastOp' = "tick" /\ state.phase = "playing"
  \/ lastOp' = "play" /\ state.phase \in {"idle", "paused"}

\* C17: after the tick that fires an error card, every later tick run
\* while fewer than 800 wall-clock ms have passed since the firing requests
\* the next tick, leaves elapsedMs unchanged and fires no event (and
\* invokes no callback)
C17_TickInFreezeOnlyReschedules ==
  [][(/\ ExecTick
      /\ errorFiredAt # Null
      /\ now - errorFiredAt[1] < microPauseDurationMs) =>
        /\ state'.elapsedMs = state.elapsedMs
        /\ state'.phase = "playing"
        /\ firedNow' = <<>>
        /\ calls' = <<>>
        /\ scheduled' = scheduled
        /\ rafId' # Null
        /\ rafId'[1] \in frames']_vars

\* a frame callback has just run 400 ms into a micro-pause
C17_Witness ==
  /\ lastOp = "tick"
  /\ errorFiredAt # Null
  /\ now > errorFiredAt[1]
  /\ now - errorFiredAt[1] < microPauseDurationMs
  /\ microPauseStartMs # Null
  /\ calls = <<>>

\* C18: when a micro-pause ends with no pause() taken in it, the origin
\* is advanced by exactly the observed span F = now - microPauseStartMs,
\* F >= 800, so the elapsed time of the tick that ends it equals the
\* elapsed time at the start of the micro-pause
C18_FreezeShiftsOriginBySpan ==
  [][(/\ microPauseStartMs # Null
      /\ ~pausedInFreeze
      /\ lastOp' # "reset"
      /\ microPauseStartMs' # microPauseStartMs) =>
        /\ now - microPauseStartMs[1] >= microPauseDurationMs
        /\ startTimeMs'[1] = startTimeMs[1] + (now - microPauseStartMs[1])
        /\ state'.elapsedMs = microPauseStartMs[1] - startTimeMs[1]]_vars

\* a micro-pause with no pause() in it has just ended after more than its
\* nominal duration
C18_Witness ==
  /\ freezeSpan # Null
  /\ ~freezeSpan[1].paused
  /\ freezeSpan[1].span > microPauseDurationMs
  /\ lastOp = "tick"

\* the step runs _tick while a micro-pause younger than 800 ms is recorded
Suppressed ==
  /\ microPauseStartMs # Null
  /\ now - microPauseStartMs[1] < microPauseDurationMs

\* C20 as stated: on every drive tick executed while playing, the progress
\* callback is invoked exactly once, with the elapsed time of that tick and
\* the total duration
C20_ProgressOnEveryTick ==
  [][ExecTick =>
       ProgressOf(calls') =
         << <<"onProgress", state'.elapsedMs, scenario.totalDurationMs>> >>]_vars

\* C20 amended: on every drive tick executed while playing and not
\* suppressed by an active micro-pause, the progress callback is invoked
\* exactly once, with the elapsed time of that tick (now minus the origin
\* the tick leaves) and the total duration; a suppressed tick invokes no
\* callback at all
C20_ProgressOnEveryLiveTick ==
  [][/\ (ExecTick /\ ~Suppressed) =>
          /\ ProgressOf(calls') =
               << <<"onProgress", now - startTimeMs'[1],
                    scenario.totalDurationMs>> >>
          /\ state'.elapsedMs = now - startTimeMs'[1]
     /\ (ExecTick /\ Suppressed) => calls' = <<>>]_vars

\* the tick that completed the run has reported progress once, before
\* the completion callback
C20_Witness ==
  /\ lastOp = "tick"
  /\ state.phase = "complete"
  /\ Len(ProgressOf(calls)) = 1
  /\ CompletesOf(calls) # <<>>

\* the position in a call trace of the first error-card callback
FirstErrorCall(cs) ==
  CHOOSE j \in DOMAIN cs :
    /\ cs[j][1] = "onProtocolCard" /\ cs[j][2].isError
    /\ \A i \in 1..(j - 1) : ~(cs[i][1] = "onProtocolCard" /\ cs[i][2].isError)

\* C19: at most one micro-pause is active; a second error card firing
\* while one is active (two due in the same tick) leaves the recorded start
\* unchanged: after a handler that fired error cards, microPauseStartMs is
\* the clock reading taken when the first of them fired
C19_SecondErrorCardKeepsFreezeStart ==
  [][ErrorCardsOf(calls') # <<>> =>
       microPauseStartMs' = Some(now + callbackMs * FirstErrorCall(calls'))]_vars

\* C15: in the character engine a session whose pending step was canceled
\* by pause() is re-armed by the next play() and goes on from its cursor;
\* in finite-run form: a play() that resumes from paused leaves a pending
\* step, its handle stored, for every session that was stored
C15_CharResumeRearmsSessions ==
  [][(state.phase = "paused" /\ lastOp' = "play") =>
       \A k \in DOMAIN activeTypings :
         /\ k \in DOMAIN activeTypings'
         /\ activeTypings'[k].intervalId # Null
         /\ StepsOf(timers', k) # {}]_vars

\* the largest element of a non-empty set of numbers
Max(S) == CHOOSE x \in S : \A y \in S : y <= x

\* the places in the fire log that hold a PhaseTransition
PhaseFirings ==
  {i \in DOMAIN fireLog : scheduled[fireLog[i]].event.type = "phase-transition"}

DueTransitions(el) ==
  {i \in DOMAIN scheduled : /\ scheduled[i].event.type = "phase-transition"
                            /\ scheduled[i].fireAtMs <= el}

\* C22: in every state reached from idle by play(), pause() and ticks,
\* getState().currentPhase is the phase of the latest PhaseTransition whose
\* due offset is <= getState().elapsedMs, and pre-session if there is none
C22_PhaseFollowsElapsed ==
  ~resetAfterFiring =>
    state.currentPhase =
      IF DueTransitions(state.elapsedMs) = {} THEN "pre-session"
      ELSE scheduled[Max(DueTransitions(state.elapsedMs))].event.event.phase

\* the lifecycle steps of the state machine: idle to playing by play(),
\* playing to paused by pause(), paused to playing by play(), playing to
\* complete by a tick with elapsed >= total, any phase to idle by reset()
ListedStep ==
  \/ state.phase = "idle" /\ state'.phase = "playing" /\ lastOp' = "play"
  \/ state.phase = "playing" /\ state'.phase = "paused" /\ lastOp' = "pause"
  \/ state.phase = "paused" /\ state'.phase = "playing" /\ lastOp' = "play"
  \/ /\ state.phase = "playing" /\ state'.phase = "complete" /\ lastOp' = "tick"
     /\ state'.elapsedMs >= scenario.totalDurationMs
  \/ state'.phase = "idle" /\ lastOp' = "reset"

ResumeCompletes ==
  /\ state.phase = "paused" /\ state'.phase = "complete" /\ lastOp' = "play"
  /\ pausedAtMs >= scenario.totalDurationMs
  /\ state'.elapsedMs >= scenario.totalDurationMs

NoOpCall ==
  \/ lastOp' = "play" /\ state.phase \in {"playing", "complete"}
  \/ lastOp' = "pause" /\ state.phase \in {"idle", "paused", "complete"}

\* C24: play() called while playing or complete, and pause() called while
\* idle, paused or complete, change no engine state (lifecycle phase, clock
\* origin, pause offset, fired flags, typing sessions, pending timers and
\* frames) and invoke no callback
C24_NoOpCallsChangeNothing ==
  [][NoOpCall => (UNCHANGED engineVars /\ calls' = <<>> /\ firedNow' = <<>>)]_vars

\* play() has just been called on a completed run
C24_Witness ==
  /\ lastOp = "play"
  /\ state.phase = "complete"
  /\ calls = <<>>

\* C25: if play() is called and afterwards neither pause() nor reset(),
\* while wall-clock time keeps advancing and every requested tick runs, the
\* lifecycle phase eventually becomes complete, also when error cards
\* trigger micro-pauses on the way
C25_PlayLeadsToComplete ==
  (state.phase = "playing") ~> (state.phase = "complete")

\* a run has completed by a tick after an error card fired and its
\* micro-pause ended
C25_Witness ==
  /\ state.phase = "complete"
  /\ lastOp = "tick"
  /\ microPauseStartMs = Null
  /\ \E i \in DOMAIN fireLog :
       /\ scheduled[fireLog[i]].event.type = "protocol-card"
       /\ scheduled[fireLog[i]].event.event.isError

\* C26: an event whose due offset is greater than or equal to the total
\* duration is never fired: no position in the fire log has
\* fireAtMs >= totalDurationMs
C26_LateEventsNeverFire ==
  \A i \in DOMAIN fireLog :
    scheduled[fireLog[i]].fireAtMs < scenario.totalDurationMs

\* the pairs of chat messages on one panel with distinct due offsets
SamePanelPairs ==
  {p \in MessagesOf(scenario) \X MessagesOf(scenario) :
     p[1].panel = p[2].panel /\ p[1].delayMs # p[2].delayMs}

\* the reveal of message m is what it is when m is the only message: the
\* cursors reported so far are an initial segment of its word boundaries,
\* it is completed exactly when all of them have been reported, and while
\* it is under way its session is stored under its key with its cursor
RevealsAlone(m) ==
  LET log == typingLog[m]
      ends == ComputeWordEnds(m.text)
  IN /\ IsPrefix(log.cursors, ends)
     /\ log.completes = IF log.cursors = ends THEN 1 ELSE 0
     /\ (log.cursors # <<>> /\ log.cursors # ends) =>
          /\ KeyOf(m) \in DOMAIN activeTypings
          /\ activeTypings[KeyOf(m)].msg = m
          /\ activeTypings[KeyOf(m)].wordIndex = Len(log.cursors)
          /\ activeTypings[KeyOf(m)].charIndex = log.cursors[Len(log.cursors)]

\* C27: two chat messages on the same panel with distinct due offsets get
\* distinct session keys, and under every interleaving of their typing
\* steps the cursor sequence and the completion of each are those it has
\* when the other message does not exist
C27_SamePanelSessionsIndependent ==
  \A p \in SamePanelPairs :
    /\ KeyOf(p[1]) # KeyOf(p[2])
    /\ RevealsAlone(p[1])
    /\ RevealsAlone(p[2])

\* a typing step has just reported a reveal of one message while the
\* session of another message on the same panel is under way
C27_Witness ==
  /\ lastOp = "typing"
  /\ calls # <<>>
  /\ \E p \in SamePanelPairs :
       /\ typingLog[p[1]].cursors # <<>>
       /\ typingLog[p[1]].completes = 0
       /\ KeyOf(p[1]) \in DOMAIN activeTypings
       /\ calls[1][1] = "onChatMessage"
       /\ calls[1][2] = p[2]

\* C28: the object returned by getState() is a fresh copy: it holds the
\* engine's state of the moment of the call, writing to it changes no
\* engine state (so a later getState() does not show the write), and no
\* later engine transition changes an object already returned
C28_GetStateReturnsCopy ==
  [][/\ lastOp' = "getState" =>
          (UNCHANGED engineVars /\ snapshot'[1].val = state)
     /\ lastOp' = "mutate" => UNCHANGED engineVars
     /\ (snapshot # Null /\ lastOp' \notin {"getState", "mutate"}) =>
          (snapshot' # Null /\ snapshot'[1].val = snapshot[1].val)]_vars

\* a tick has just computed a new elapsed time while the caller holds an
\* object it got earlier and wrote to
C28_Witness ==
  /\ lastOp = "tick"
  /\ calls # <<>>
  /\ snapshot # Null
  /\ snapshot[1].val.elapsedMs = 0 - 1
  /\ state.elapsedMs > 0

\* C29: construction from a scenario that contains an event with a
\* negative due offset fails with a validation error instead of producing
\* an engine: every engine there is was built from a scenario whose due
\* offsets are all >= 0
C29_NoEngineFromNegativeOffset ==
  \A i \in DOMAIN scenario.events : scenario.events[i].event.delayMs >= 0

\* the input position of each schedule entry, in schedule order
InputOrder == [i \in DOMAIN scheduled |-> InputPos(scheduled[i])]

\* C30: the schedule built at construction has exactly one entry per
\* scenario event, each carrying its event's due offset, in non-decreasing
\* due-offset order with equal offsets kept in input order, all unfired
\* when built; and the scenario's events list stays as it was given
C30_ScheduleIsStableSortOfEvents ==
  /\ Len(scheduled) = Len(scenario.events)
  /\ {InputOrder[i] : i \in DOMAIN scheduled} = DOMAIN scenario.events
  /\ \A i \in DOMAIN scheduled :
       /\ scheduled[i].event = scenario.events[InputOrder[i]]
       /\ scheduled[i].fireAtMs = scheduled[i].event.event.delayMs
       /\ lastOp = "new" => ~scheduled[i].fired
  /\ \A i, j \in DOMAIN scheduled :
       i < j =>
         \/ scheduled[i].fireAtMs < scheduled[j].fireAtMs
         \/ /\ scheduled[i].fireAtMs = scheduled[j].fireAtMs
            /\ InputOrder[i] < InputOrder[j]
  /\ scenario \in {Scenarios[i] : i \in DOMAIN Scenarios}

\* an engine just constructed from a scenario whose events are listed out
\* of time order and two of which share a due offset
C30_Witness ==
  /\ lastOp = "new"
  /\ \E i, j \in DOMAIN scenario.events :
       i < j /\ scenario.events[i].event.delayMs > scenario.events[j].event.delayMs
  /\ \E i, j \in DOMAIN scenario.events :
       i < j /\ scenario.events[i].event.delayMs = scenario.events[j].event.delayMs

\* the step runs a handler body that has become stale: a drive tick or a
\* typing step while the lifecycle phase is not playing, or a typing step
\* whose timeout belongs to a key under which no session is stored
StaleStep ==
  \/ lastOp' = "tick" /\ state.phase # "playing"
  \/ /\ lastOp' = "typing"
     /\ \/ state.phase # "playing"
        \/ \E tm \in timers \ timers' :
             tm.remaining = 0 /\ tm.key \notin DOMAIN activeTypings

\* C31: a drive tick or typing step whose body runs while the lifecycle
\* phase is not playing, and a typing step whose session is no longer
\* stored, changes no engine state, invokes no callback and schedules no
\* further timer: the host has one pending callback less, nothing else differs
C31_StaleCallbackIsNoOp ==
  [][StaleStep =>
       /\ UNCHANGED <<state, startTimeMs, pausedAtMs, rafId, scheduled,
                      activeTypings, microPauseStartMs>>
       /\ calls' = <<>>
       /\ firedNow' = <<>>
       /\ timers' \subseteq timers
       /\ frames' \subseteq frames
       /\ Cardinality(timers \ timers') + Cardinality(frames \ frames') = 1]_vars

\* a typing step has just run while playing and found no session under its key
C31_Witness ==
  /\ lastOp = "typing"
  /\ state.phase = "playing"
  /\ calls = <<>>

\* the timer handles stored in the sessions
StoredHandles == {activeTypings[k].intervalId : k \in DOMAIN activeTypings}

\* C32: a pause() that takes effect removes no typing session and changes
\* no session's cursor or word index; it only cancels the pending step whose
\* handle a session holds and clears that handle, and it leaves the fired
\* flags and currentPhase unchanged
C32_PauseKeepsSessions ==
  [][(lastOp' = "pause" /\ state.phase = "playing") =>
       /\ DOMAIN activeTypings' = DOMAIN activeTypings
       /\ \A k \in DOMAIN activeTypings :
            activeTypings'[k] = [activeTypings[k] EXCEPT !.intervalId = Null]
       /\ timers' = {tm \in timers : Some(tm.id) \notin StoredHandles}
       /\ scheduled' = scheduled
       /\ state'.currentPhase = state.currentPhase]_vars

\* pause() has just been called with a session stored that had revealed
\* more than its first word, after a phase transition had fired
C32_Witness ==
  /\ lastOp = "pause"
  /\ state.phase = "paused"
  /\ state.currentPhase = "protocol"
  /\ \E k \in DOMAIN activeTypings :
       /\ activeTypings[k].wordIndex >= 2
       /\ activeTypings[k].intervalId = Null

\* the indices i of text with text[i] = ' ' or i = length - 1
BoundarySet(text) ==
  {i \in 0..(Len(text) - 1) : text[i + 1] = " " \/ i = Len(text) - 1}

\* the elements of a finite set of numbers in increasing order
Ascending(S) ==
  [k \in 1..Cardinality(S) |->
     CHOOSE x \in S : Cardinality({y \in S : y < x}) = k - 1]

\* the chat messages fired by the last handler
FiredNowMessages ==
  {scheduled[firedNow[k]].event.event :
     k \in {j \in DOMAIN firedNow : scheduled[firedNow[j]].event.type = "chat"}}

\* C33: in the word engine, for every non-empty text, the cursors reported
\* for a message are always an initial segment of the increasing list of the
\* indices i with text[i] = ' ' or i = length - 1, and the first of them is
\* reported within the tick that fires the message
C33_CursorsFollowWordBoundaries ==
  /\ \A m \in DOMAIN typingLog :
       /\ IsPrefix(typingLog[m].cursors, Ascending(BoundarySet(m.text)))
       /\ FiredPositionsOf(m) # {} => typingLog[m].cursors # <<>>
  /\ \A m \in FiredNowMessages :
       /\ lastOp \in {"play", "tick"}
       /\ \E j \in DOMAIN calls :
            calls[j] = <<"onChatMessage", m, Ascending(BoundarySet(m.text))[1],
                         Len(m.text)>>

\* a typing step has just reported the third and last boundary of a text
\* that begins with a space
C33_Witness ==
  /\ lastOp = "typing"
  /\ \E m \in DOMAIN typingLog :
       /\ m.text[1] = " "
       /\ Len(typingLog[m].cursors) = 3
       /\ typingLog[m].cursors = Ascending(BoundarySet(m.text))
       /\ \E j \in DOMAIN calls : calls[j][1] = "onChatMessage" /\ calls[j][2] = m

\* the messages with exactly one word boundary
OneWordMessages ==
  {m \in MessagesOf(scenario) : Cardinality(BoundarySet(m.text)) = 1}

\* C34: in the word engine a message with exactly one word boundary gets
\* one chat-reveal at its last index, followed at once by
\* chat-reveal-complete in the same tick; no typing session is stored and no
\* step timer is scheduled for it
C34_SingleWordCompletesAtOnce ==
  \A m \in OneWordMessages :
    /\ typingLog[m].cursors \in {<<>>, <<Len(m.text) - 1>>}
    /\ typingLog[m].completes = Len(typingLog[m].cursors)
    /\ FiredPositionsOf(m) # {} => typingLog[m].completes = 1
    /\ KeyOf(m) \notin DOMAIN activeTypings
    /\ \A tm \in timers : tm.key # KeyOf(m)
    /\ \A j \in DOMAIN calls :
         (calls[j][1] = "onChatMessage" /\ calls[j][2] = m) =>
           /\ lastOp \in {"play", "tick"}
           /\ calls[j] = <<"onChatMessage", m, Len(m.text) - 1, Len(m.text)>>
           /\ j < Len(calls)
           /\ calls[j + 1] = <<"onChatMessageComplete", m>>

\* a tick has just fired a message of more than one character that has a
\* single word boundary
C34_Witness ==
  /\ lastOp = "tick"
  /\ \E m \in OneWordMessages :
       /\ Len(m.text) >= 2
       /\ m \in FiredNowMessages
       /\ typingLog[m].completes = 1
       /\ timers = {}

\* C35: in the character engine, for a message of length n >= 1, the
\* reported cursors are 0, within the tick that fires it, and then 1, 2, ...
\* each one more than the last; no reveal reports a cursor greater than
\* n - 1, and chat-reveal-complete comes only once cursor n - 1 has been
\* revealed.  pause() and reset() only cut a reveal short, so the cursors
\* logged since the last reset satisfy this in every state
C35_CharCursorsCountToLastIndex ==
  /\ \A m \in DOMAIN typingLog :
       LET cs == typingLog[m].cursors
       IN /\ \A i \in DOMAIN cs : cs[i] = i - 1
          /\ \A i \in DOMAIN cs : cs[i] <= Len(m.text) - 1
          /\ FiredPositionsOf(m) # {} => cs # <<>>
          /\ typingLog[m].completes <= 1
          /\ typingLog[m].completes = 1 => cs[Len(cs)] = Len(m.text) - 1
  /\ \A j \in DOMAIN calls :
       calls[j][1] = "onChatMessageComplete" =>
         /\ j > 1
         /\ calls[j - 1] = <<"onChatMessage", calls[j][2],
                             Len(calls[j][2].text) - 1, Len(calls[j][2].text)>>

\* the callback of an event's kind with the event's own payload
CallbackOf(ev) ==
  CASE ev.type = "phase-transition" -> <<"onPhaseChange", ev.event.phase>>
    [] ev.type = "chat" ->
         <<"onChatMessage", ev.event, Ascending(BoundarySet(ev.event.text))[1],
           Len(ev.event.text)>>
    [] ev.type = "protocol-card" -> <<"onProtocolCard", ev.event>>
    [] ev.type = "signal-flow" -> <<"onSignalFlow", ev.event.json>>

\* C36: firing an event invokes exactly the callback of its kind with its
\* own payload (phase-changed with the target phase, card-revealed with
\* the card, signal with the payload string, a first chat-reveal for the
\* message): the event callbacks of a tick are those of the events it
\* fired, one each, in order; the sub-card-revealed callback is never
\* invoked, also when a fired card carries sub-cards
C36_EachEventItsOwnCallback ==
  /\ lastOp \in {"play", "tick"} =>
       /\ Len(EventCalls(calls)) = Len(firedNow)
       /\ \A k \in DOMAIN firedNow :
            EventCalls(calls)[k] = CallbackOf(scheduled[firedNow[k]].event)
  /\ lastOp \notin {"play", "tick"} =>
       /\ firedNow = <<>>
       /\ \A j \in DOMAIN calls :
            calls[j][1] \in {"onChatMessage", "onChatMessageComplete"}
  /\ \A j \in DOMAIN calls :
       calls[j][1] \in {"onPhaseChange", "onChatMessage", "onChatMessageComplete",
                        "onProtocolCard", "onSignalFlow", "onProgress", "onComplete"}

\* a tick has just fired a card that carries two sub-cards, together with
\* a signal
C36_Witness ==
  /\ lastOp = "tick"
  /\ Len(firedNow) >= 2
  /\ \E k \in DOMAIN firedNow :
       /\ scheduled[firedNow[k]].event.type = "protocol-card"
       /\ "subCards" \in DOMAIN scheduled[firedNow[k]].event.event
       /\ Len(scheduled[firedNow[k]].event.event.subCards) = 2
  /\ \E k \in DOMAIN firedNow : scheduled[firedNow[k]].event.type = "signal-flow"

\* C37: in the word engine, in every state between callbacks: if the
\* lifecycle phase is playing, exactly one drive tick is pending and every
\* stored typing session has exactly one pending step timer; if the phase
\* is idle or paused, no drive tick and no typing step timer is pending
C37_NoDanglingTimers ==
  /\ state.phase = "playing" =>
       /\ Cardinality(frames) = 1
       /\ \A k \in DOMAIN activeTypings : Cardinality(StepsOf(timers, k)) = 1
  /\ state.phase \in {"idle", "paused"} =>
       /\ frames = {}
       /\ timers = {}

\* the step runs the typing closure of a stored session while the engine is
\* playing and a micro-pause is recorded
TypingStepInFreeze ==
  /\ lastOp' = "typing"
  /\ state.phase = "playing"
  /\ microPauseStartMs # Null
  /\ \E tm \in timers \ timers' :
       tm.remaining = 0 /\ tm.key \in DOMAIN activeTypings

\* C38: a micro-pause does not suspend typing: while one is recorded and
\* the lifecycle phase is playing, a pending typing step still runs,
\* reports the reveal of the next word boundary and advances the session's
\* cursor and word index (or completes the message), while
\* getState().elapsedMs and the micro-pause stay as they are
C38_TypingRunsDuringFreeze ==
  [][TypingStepInFreeze =>
       \A tm \in timers \ timers' :
         tm.remaining = 0 =>
           LET ty == activeTypings[tm.key]
               ci == ty.wordEnds[ty.wordIndex + 1]
           IN /\ calls' # <<>>
              /\ calls'[1] = <<"onChatMessage", ty.msg, ci, tm.total>>
              /\ ci > ty.charIndex
              /\ IF tm.key \in DOMAIN activeTypings'
                 THEN /\ activeTypings'[tm.key].charIndex = ci
                      /\ activeTypings'[tm.key].wordIndex = ty.wordIndex + 1
                 ELSE calls'[Len(calls')] = <<"onChatMessageComplete", ty.msg>>
              /\ state' = state
              /\ microPauseStartMs' = microPauseStartMs]_vars

\* a typing step has just reported a reveal 400 ms into a micro-pause
C38_Witness ==
  /\ lastOp = "typing"
  /\ state.phase = "playing"
  /\ microPauseStartMs # Null
  /\ now > microPauseStartMs[1]
  /\ now - microPauseStartMs[1] < microPauseDurationMs
  /\ calls # <<>>
  /\ calls[1][1] = "onChatMessage"

\* the pairs <<earlier, later>> of multi-word chat messages that share a
\* session key, in the order of the scenario's events list, which is the
\* order in which the tick that finds them due fires them
SharedKeyPairs ==
  {p \in MessagesOf(scenario) \X MessagesOf(scenario) :
     /\ KeyOf(p[1]) = KeyOf(p[2])
     /\ Cardinality(BoundarySet(p[1].text)) > 1
     /\ Cardinality(BoundarySet(p[2].text)) > 1
     /\ \E i, j \in DOMAIN scenario.events :
          /\ i < j
          /\ scenario.events[i] = [type |-> "chat", event |-> p[1]]
          /\ scenario.events[j] = [type |-> "chat", event |-> p[2]]}

\* C39: when two multi-word chat messages share (panel, due offset), the
\* session stored under the shared key between handlers is that of the
\* later-fired message, which has replaced the earlier one's (the map holds
\* one session per key), and the earlier message never receives
\* chat-reveal-complete
C39_LaterSessionReplacesEarlier ==
  \A p \in SharedKeyPairs :
    /\ typingLog[p[1]].completes = 0
    /\ \A j \in DOMAIN calls : calls[j] # <<"onChatMessageComplete", p[1]>>
    /\ KeyOf(p[1]) \in DOMAIN activeTypings =>
         /\ activeTypings[KeyOf(p[1])].msg = p[2]
         /\ typingLog[p[1]].cursors # <<>>
         /\ typingLog[p[2]].cursors # <<>>

\* a typing step has just completed the later of two messages that share a
\* key, both of which had their first reveal
C39_Witness ==
  /\ lastOp = "typing"
  /\ \E p \in SharedKeyPairs :
       /\ typingLog[p[1]].cursors # <<>>
       /\ typingLog[p[1]].completes = 0
       /\ typingLog[p[2]].completes = 1
       /\ calls[Len(calls)] = <<"onChatMessageComplete", p[2]>>

============================================================================
